---- MODULE Spec2Model ----
(***************************************************************************)
(* Model of mgcpy/independence_tests/hhg.py: the HHG independence test.    *)
(*                                                                         *)
(* One HHG instance and one caller holding a pair of matrices.  The two    *)
(* public methods, test_statistic and p_value, are the actions; each is    *)
(* one step, from the call to its return or its exception.  Matrices       *)
(* are tuples of rows (1-based here, 0-based in numpy).  Floating point    *)
(* values are modelled as exact rationals <<num, den>> in lowest terms;    *)
(* every input of the model has integer entries and rows that differ in    *)
(* at most one coordinate, so that Euclidean distances are integers.       *)
(***************************************************************************)
EXTENDS Integers, Sequences, FiniteSets

\* ------------------------------------------------------------------ bounds
MaxN == 5
MaxVal == 2
MaxR == 2

\* ------------------------------------------------------------- arithmetic
Abs(a) == IF a < 0 THEN -a ELSE a

RECURSIVE GCD(_, _)
GCD(a, b) == IF b = 0 THEN a ELSE GCD(b, a % b)

\* a float, kept exact: the fraction num/den with den > 0, in lowest terms
Frac(num, den) ==
    LET g == GCD(Abs(num), den)
    IN  <<num \div g, den \div g>>

Zero == <<0, 1>>

FracAdd(a, b) == Frac(a[1] * b[2] + b[1] * a[2], a[2] * b[2])

\* python's None, and an attribute that was never assigned
None == << >>

\* ---------------------------------------------------------------- matrices
\* a vector as a tuple of values, each entry computed once
Vector(s) == s \o << >>

Rows(M) == Len(M)
Columns(M) == Len(M[1])

RECURSIVE SumSeq(_)
SumSeq(s) == IF s = << >> THEN 0 ELSE Head(s) + SumSeq(Tail(s))

\* matrix.diagonal(): min(rows, columns) entries
Diagonal(M) ==
    LET m == IF Rows(M) < Columns(M) THEN Rows(M) ELSE Columns(M)
    IN  [k \in 1..m |-> M[k][k]]

\* sum(matrix.diagonal()**2)
SumSqDiagonal(M) ==
    LET d == Diagonal(M) IN SumSeq([k \in 1..Len(d) |-> d[k] * d[k]])

\* the square root of a perfect square
Sqrt(s) == CHOOSE r \in 0..s : r * r = s

\* scipy.spatial.distance_matrix(M, M): Euclidean distance between the rows
distance_matrix(M) ==
    Vector([i \in 1..Rows(M) |->
        Vector([j \in 1..Rows(M) |->
            Sqrt(SumSeq([k \in 1..Columns(M) |->
                     (M[i][k] - M[j][k]) * (M[i][k] - M[j][k])]))])])

\* lines 56-63: a square matrix with a zero diagonal is used as it is
IsDistanceInput(M) == ~(Rows(M) # Columns(M) \/ SumSqDiagonal(M) > 0)

dist_mtx(M) == IF IsDistanceInput(M) THEN M ELSE distance_matrix(M)

\* ------------------------------------------------- the local contingency table
\* lines 71-72: dist_mtx[i, :] <= dist_mtx[i, j], one boolean for each point k
tmp(D, i, j) == Vector([k \in 1..Len(D[i]) |-> D[i][k] <= D[i][j]])

\* np.sum of a 0/1 vector
Count(b) == Cardinality({k \in 1..Len(b) : b[k]})

\* t11 with only one of the two fixed points i, j subtracted
t11_SubtractOne(tmp1, tmp2) ==
    Count([k \in 1..Len(tmp1) |-> tmp1[k] /\ tmp2[k]]) - 1

\* line 73: np.sum(tmp1 * tmp2) - 2
t11(tmp1, tmp2) == Count([k \in 1..Len(tmp1) |-> tmp1[k] /\ tmp2[k]]) - 2

\* t12 with the complement of tmp2 forgotten
t12_NoComplement(tmp1, tmp2) ==
    Count([k \in 1..Len(tmp1) |-> tmp1[k] /\ tmp2[k]])

\* line 74: np.sum(tmp1 * (1-tmp2))
t12(tmp1, tmp2) == Count([k \in 1..Len(tmp1) |-> tmp1[k] /\ ~tmp2[k]])

\* line 75: np.sum((1-tmp1) * tmp2)
t21(tmp1, tmp2) == Count([k \in 1..Len(tmp1) |-> ~tmp1[k] /\ tmp2[k]])

\* line 76: np.sum((1-tmp1) * (1-tmp2))
t22(tmp1, tmp2) == Count([k \in 1..Len(tmp1) |-> ~tmp1[k] /\ ~tmp2[k]])

\* lines 71-76: the four counts of the pair (i, j), as <<t11, t12, t21, t22>>
Table(Dx, Dy, i, j) ==
    LET tmp1 == tmp(Dx, i, j)
        tmp2 == tmp(Dy, i, j)
    IN  <<t11(tmp1, tmp2), t12(tmp1, tmp2), t21(tmp1, tmp2), t22(tmp1, tmp2)>>

\* line 77: the four factors, and their product
Factors(t) == <<t[1] + t[2], t[3] + t[4], t[1] + t[3], t[2] + t[4]>>

denom(t) == (t[1] + t[2]) * (t[3] + t[4]) * (t[1] + t[3]) * (t[2] + t[4])

\* line 78: the guard of the division
Guard(t) == denom(t) > 0

\* the difference of the cross products, not squared
Power2_NotSquared(t) == t[2] * t[3] - t[1] * t[4]

\* line 80: np.power((t12*t21 - t11*t22), 2)
Power2(t) == (t[2] * t[3] - t[1] * t[4]) * (t[2] * t[3] - t[1] * t[4])

\* the contribution scaled by n-1 instead of n-2
Contribution_NMinusOne(n, t) == Frac((n - 1) * Power2(t), denom(t))

\* lines 79-80: S[i, j] = (n-2) * power / denom
Contribution(n, t) == Frac((n - 2) * Power2(t), denom(t))

\* lines 66-80: S after the double loop; entries the loop skips stay 0
SMatrix(Dx, Dy) ==
    Vector([i \in 1..Rows(Dx) |->
        Vector([j \in 1..Rows(Dx) |->
            IF i = j THEN Zero
            ELSE LET t == Table(Dx, Dy, i, j)
                 IN  IF Guard(t) THEN Contribution(Rows(Dx), t) ELSE Zero])])

RECURSIVE FracSum(_)
FracSum(s) == IF s = << >> THEN Zero ELSE FracAdd(Head(s), FracSum(Tail(s)))

\* line 81: np.sum(S)
corr(Sm) == FracSum([i \in 1..Len(Sm) |-> FracSum(Sm[i])])

\* ------------------------------------------------ what the double loop raises
\* The exception pair (i, j) ends in, "none" when it completes.  Line 72 indexes
\* dist_mtx_Y[i, :] and dist_mtx_Y[i, j]; line 73 multiplies tmp1 and tmp2,
\* which numpy broadcasts only for equal lengths or a length of 1.
PairError(Dx, Dy, i, j) ==
    IF i > Rows(Dy) \/ j > Columns(Dy) THEN "IndexError"
    ELSE IF Rows(Dx) # Columns(Dy) /\ Rows(Dx) # 1 /\ Columns(Dy) # 1
         THEN "ValueError"
         ELSE "none"

\* lines 68-70: the pairs in the order the loop visits them
Pairs(n) == {p \in (1..n) \X (1..n) : p[1] # p[2]}
Before(p, q) == p[1] < q[1] \/ (p[1] = q[1] /\ p[2] <= q[2])

LoopError(Dx, Dy) ==
    LET bad == {p \in Pairs(Rows(Dx)) : PairError(Dx, Dy, p[1], p[2]) # "none"}
    IN  IF bad = {} THEN "none"
        ELSE LET first == CHOOSE p \in bad : \A q \in bad : Before(p, q)
             IN  PairError(Dx, Dy, first[1], first[2])

\* ------------------------------------------------------------------ inputs
\* n observations of one feature with values in vals, as an n x 1 matrix
Samples(n, vals) == [1..n -> {<<v>> : v \in vals}]

\* a feature with values 0..MaxVal, the observations numbered in its order
SortedSamples(n) ==
    {M \in Samples(n, 0..MaxVal) : \A i \in 1..(n - 1) : M[i][1] <= M[i + 1][1]}

\* a feature with values 0 and 1, in any order
BinarySamples(n) == Samples(n, {0, 1})

ConstMatrix(n, b) == [i \in 1..n |-> [j \in 1..n |-> IF i = j THEN 0 ELSE b]]
Overwrite(M, p, q, v) == [M EXCEPT ![p][q] = v]

\* n x n matrices: the distance matrices of equal distances 0 and 1, and
\* the all-zero matrix with the entry at (p, q), p in rows, overwritten by
\* -1 or 1 (on the diagonal this makes raw data of it)
Squares(n, rows) ==
    {ConstMatrix(n, 0), ConstMatrix(n, 1)}
    \cup {Overwrite(ConstMatrix(n, 0), p, q, v) :
              <<p, q, v>> \in rows \X (1..n) \X {-1, 1}}

\* the pairs of matrices a caller passes.  Of n rows each: a sorted feature
\* with a binary feature or a square matrix, and a square matrix overwritten
\* in its first row with a sorted feature or a square matrix.
EqualRowPairs(n) ==
    (SortedSamples(n) \X (BinarySamples(n) \cup Squares(n, 1..n)))
    \cup (Squares(n, {1}) \X (SortedSamples(n) \cup Squares(n, 1..n)))

\* Of n and m # n rows: a constant feature or a matrix of equal distances 1.
Plain(n) == {[i \in 1..n |-> <<0>>], ConstMatrix(n, 1)}
OtherRowPairs(n, m) == IF n = m THEN {} ELSE Plain(n) \X Plain(m)

InputPairs ==
    UNION {EqualRowPairs(n) : n \in 1..MaxN}
    \cup UNION {OtherRowPairs(n, m) : <<n, m>> \in (1..MaxN) \X (1..MaxN)}

\* ------------------------------------------------------------------- state
VARIABLES
    matrix_X, matrix_Y,     \* the two matrices the caller holds
    call,                   \* the method called last
    replication_factor,     \* its replication_factor (0: test_statistic)
    raised,                 \* the exception it ended in, or "none"
    returned,               \* the value it returned, or None
    dist_mtx_X, dist_mtx_Y, \* test_statistic's locals, None before line 56
    S,                      \* test_statistic's S once the loop completed
    test_statistic_,        \* self.test_statistic_
    p_value_                \* self.p_value_

vars == <<matrix_X, matrix_Y, call, replication_factor, raised, returned,
          dist_mtx_X, dist_mtx_Y, S, test_statistic_, p_value_>>

Init ==
    /\ \E pair \in InputPairs :
          /\ matrix_X = pair[1]
          /\ matrix_Y = pair[2]
    /\ call = "none"
    /\ replication_factor = 0
    /\ raised = "none"
    /\ returned = None
    /\ dist_mtx_X = None
    /\ dist_mtx_Y = None
    /\ S = None
    /\ test_statistic_ = None
    /\ p_value_ = None

\* hhg.test_statistic(matrix_X, matrix_Y), lines 52-87
test_statistic ==
    LET Dx == dist_mtx(matrix_X)
        Dy == dist_mtx(matrix_Y)
        err == LoopError(Dx, Dy)
    IN  /\ call' = "test_statistic"
        /\ replication_factor' = 0
        /\ dist_mtx_X' = Dx
        /\ dist_mtx_Y' = Dy
        /\ raised' = err
        /\ IF err = "none"
           THEN /\ S' = SMatrix(Dx, Dy)
                /\ test_statistic_' = corr(S')
                /\ returned' = corr(S')
           ELSE /\ S' = None
                /\ returned' = None
                /\ UNCHANGED test_statistic_
        /\ UNCHANGED <<matrix_X, matrix_Y, p_value_>>

\* hhg.p_value(matrix_X, matrix_Y, R), lines 120-131.  Line 120 calls
\* self.test_statistic() with neither matrix: python raises TypeError there,
\* before anything is computed or assigned.
p_value(R) ==
    /\ call' = "p_value"
    /\ replication_factor' = R
    /\ raised' = "TypeError"
    /\ returned' = None
    /\ dist_mtx_X' = None
    /\ dist_mtx_Y' = None
    /\ S' = None
    /\ UNCHANGED <<matrix_X, matrix_Y, test_statistic_, p_value_>>

Next ==
    \/ test_statistic
    \/ \E R \in 1..MaxR : p_value(R)

Spec == Init /\ [][Next]_vars

\* a caller that computes statistics only
StatisticSpec == Init /\ [][test_statistic]_vars

\* ------------------------------------------------------------ vocabulary
\* a >= b for two fractions with denominators > 0
FracGeq(a, b) == a[1] * b[2] >= b[1] * a[2]

Completed(m) == call = m /\ raised = "none"

SameRows == Rows(matrix_X) = Rows(matrix_Y)

\* the table of pair (i, j) in the call that ended last
LocalTable(i, j) == Table(dist_mtx_X, dist_mtx_Y, i, j)

VisitedPairs == Pairs(Rows(dist_mtx_X))

IsSquare(D, n) == Rows(D) = n /\ \A i \in 1..n : Len(D[i]) = n

\* D[i][j] = D[j][i] and D[i][i] = 0
SymmetricZeroDiagonal(D) ==
    /\ \A i \in 1..Rows(D) : D[i][i] = 0
    /\ \A i \in 1..Rows(D), j \in 1..Rows(D) : D[i][j] = D[j][i]

\* no entry is negative, as for distances under a metric
NoNegativeEntry(D) ==
    \A i \in 1..Rows(D) : \A j \in 1..Len(D[i]) : D[i][j] >= 0

Permutations(n) ==
    {pi \in [1..n -> 1..n] : \A a \in 1..n, b \in 1..n : pi[a] = pi[b] => a = b}

\* D with rows and columns reordered by the same pi
PermuteBoth(D, pi) ==
    [a \in 1..Rows(D) |-> [b \in 1..Rows(D) |-> D[pi[a]][pi[b]]]]

\* ------------------------------------------------------------------ claims
\* C1: p_value is self-contained: called with two samples of equal row count
\* and R >= 1, on a fresh instance or after any earlier calls, it succeeds and
\* returns a result derived from its own arguments.
C1_PValueSelfContained ==
    (call = "p_value" /\ SameRows /\ replication_factor >= 1)
        => (raised = "none" /\ returned # None)

\* C2: the p-value returned for equal-row samples and R >= 1 is count / R for
\* a count of replications in 0..R, so it lies in [0, 1] and is a multiple
\* of 1/R; it is what p_value stores as p_value_.
C2_PValueIsCountOverR ==
    (call = "p_value" /\ SameRows /\ replication_factor >= 1)
        => /\ raised = "none"
           /\ \E c \in 0..replication_factor :
                  returned = Frac(c, replication_factor)
           /\ p_value_ = returned

\* C3: a call with samples of different row counts ends in a
\* DimensionMismatchError, and returns and stores no statistic.
C3_RowMismatchRaises ==
    (call # "none" /\ ~SameRows)
        => (raised = "DimensionMismatchError" /\ returned = None /\ S = None)

\* C4: the distance matrix test_statistic derives from a matrix of n rows is
\* n x n, symmetric and has a zero diagonal.
C4_DerivedMatrixIsDistanceMatrix ==
    call = "test_statistic"
        => /\ IsSquare(dist_mtx_X, Rows(matrix_X))
           /\ IsSquare(dist_mtx_Y, Rows(matrix_Y))
           /\ SymmetricZeroDiagonal(dist_mtx_X)
           /\ SymmetricZeroDiagonal(dist_mtx_Y)

\* C5: when Y is already a distance matrix (of two or more observations), a
\* p_value call with R >= 1 runs its replications on Y with rows and columns
\* permuted by one permutation.
C5_PermutationActsOnRowsAndColumns ==
    (call = "p_value" /\ SameRows /\ replication_factor >= 1
        /\ Rows(matrix_Y) >= 2 /\ IsDistanceInput(matrix_Y)
        /\ SymmetricZeroDiagonal(matrix_Y) /\ NoNegativeEntry(matrix_Y))
        => \E pi \in Permutations(Rows(matrix_Y)) :
               dist_mtx_Y = PermuteBoth(matrix_Y, pi)

\* C6: for inputs of n >= 2 rows that test_statistic accepts, every S[i][j]
\* is >= 0 and so is the returned statistic.
C6_StatisticNonNegative ==
    (Completed("test_statistic") /\ Rows(matrix_X) >= 2)
        => /\ \A p \in VisitedPairs : FracGeq(S[p[1]][p[2]], Zero)
           /\ FracGeq(returned, Zero)

\* reached: a call on 5 or more rows that returned a statistic > 0 that is
\* no integer
C6_Witness ==
    /\ Completed("test_statistic")
    /\ Rows(matrix_X) >= 5
    /\ returned[1] > 0
    /\ returned[2] > 1

\* C7: with two observations in each sample test_statistic raises nothing and
\* returns exactly 0.
C7_TwoRowsGiveZero ==
    (call = "test_statistic" /\ Rows(matrix_X) = 2 /\ Rows(matrix_Y) = 2)
        => (raised = "none" /\ returned = Zero /\ test_statistic_ = Zero)

\* reached: a call on two rows whose loop passed the guard and divided
C7_Witness ==
    /\ Completed("test_statistic")
    /\ Rows(matrix_X) = 2
    /\ Rows(matrix_Y) = 2
    /\ \E p \in VisitedPairs : Guard(LocalTable(p[1], p[2]))
    /\ returned = Zero

\* C8: on distance matrices (no negative entry) every visited pair has counts
\* t11, t12, t21, t22 that are >= 0 and sum to n - 2.
C8_CountsNonNegativeSumNMinus2 ==
    (Completed("test_statistic") /\ SameRows
        /\ NoNegativeEntry(dist_mtx_X) /\ NoNegativeEntry(dist_mtx_Y))
        => \A p \in VisitedPairs :
               LET t == LocalTable(p[1], p[2])
               IN  /\ \A k \in 1..4 : t[k] >= 0
                   /\ t[1] + t[2] + t[3] + t[4] = Rows(dist_mtx_X) - 2

\* reached: a call on 4 or more rows with a pair whose table has two cells > 0
C8_Witness ==
    /\ Completed("test_statistic")
    /\ Rows(matrix_X) >= 4
    /\ NoNegativeEntry(dist_mtx_X)
    /\ NoNegativeEntry(dist_mtx_Y)
    /\ \E p \in VisitedPairs :
           LET t == LocalTable(p[1], p[2]) IN t[2] > 0 /\ t[3] > 0

\* C9: for every visited pair, a factor <= 0 makes denom <= 0 and leaves
\* S[i][j] at 0; the division happens only with all four factors positive.
C9_GuardImpliesPositiveFactors ==
    (Completed("test_statistic") /\ SameRows)
        => \A p \in VisitedPairs :
               LET t == LocalTable(p[1], p[2])
                   f == Factors(t)
               IN  /\ (\E k \in 1..4 : f[k] <= 0)
                          => (denom(t) <= 0 /\ S[p[1]][p[2]] = Zero)
                   /\ Guard(t) => \A k \in 1..4 : f[k] > 0

\* C10: the statistic is symmetric in its arguments: the value returned for
\* (X, Y) is the value the loop computes for (Y, X).
C10_SymmetricInArguments ==
    (Completed("test_statistic") /\ SameRows)
        => returned = corr(SMatrix(dist_mtx_Y, dist_mtx_X))

\* reached: a positive statistic from a pair whose table has t12 # t21
C10_Witness ==
    /\ Completed("test_statistic")
    /\ SameRows
    /\ returned[1] > 0
    /\ \E p \in VisitedPairs :
           LET t == LocalTable(p[1], p[2]) IN Guard(t) /\ t[2] # t[3]

====
